---- MODULE Spec2Model ----
(***************************************************************************)
(* A state-machine model of the distang-admin console (React 18 + axios).  *)
(*                                                                         *)
(* The repository holds two generations of several files (an earlier App   *)
(* with logout, an earlier Login, earlier Users and Messages pages); the   *)
(* model keeps both and selects one with appVersion / pageKind.            *)
(*                                                                         *)
(* Four specifications share the variables; each one moves its own group   *)
(* and leaves the others at rest:                                          *)
(*   SpecAuth  App, Login, the axios interceptors                          *)
(*   SpecList  the paginated list pages                                    *)
(*   SpecDash  the Dashboard's loadData                                    *)
(*   SpecPoll  the polling pages ApiLogs and System                        *)
(***************************************************************************)
EXTENDS Integers, Sequences, FiniteSets, TLC

VARIABLES
    lastStep,          \* history: the operation the last step performed
    \* ---- App / Login / api client -------------------------------------
    appVersion,        \* "current" (src/App.tsx) or "earlier" (with logout)
    adminToken,        \* localStorage['admin_token'], Null when absent
    appLoading,        \* App: loading
    isAuthenticated,   \* App: isAuthenticated
    route,             \* the route the router shows inside Layout
    loginLoading,      \* Login: loading
    loginError,        \* Login: error
    inflight,          \* requests sent through the api client, not yet settled
    nextId,            \* number of the next request
    navPending,        \* window.location.href = '/' was assigned, page not yet replaced
    settled,           \* history: how the last settled request reached its caller
    loginAfter401,     \* history: handleLogin ran since the last 401
    bootCause,         \* history: what caused the last page load
    sinceLogout,       \* history: "no" before any logout, "out" since handleLogout
                       \* ran, "back" once a login succeeded after it
    \* ---- a paginated list page ----------------------------------------
    pageKind,          \* which list page: users, couples, memories, messages,
                       \* usersOld, messagesOld (the earlier Users / Messages)
    mounted,           \* "no" before the page is mounted, "yes", "gone" after
    rows,              \* users / couples / memories / messages: the rows shown
    pagination,        \* pagination (earlier pages: page and totalPages)
    loading,           \* loading
    search,            \* search
    filter,            \* statusFilter / typeFilter / selectedCouple / coupleFilter
    selected,          \* selectedUser / selectedCouple / selectedMemory (0 = null)
    showModal,         \* showModal
    timers,            \* pending setTimeout callbacks, each with its closure
    effTimer,          \* the timer the search effect's cleanup will clear
    reqs,              \* requests of the page in flight
    reqNext,           \* number of the next request
    db,                \* the backend's records
    listSent,          \* history: list requests sent since the mount
    quiet,             \* history: the admin has done nothing since the mount
    burst,             \* history: search edits since the last timer fired (0, 1, 2+)
    lastList,          \* history: the list request delivered last and whether it
                       \* succeeded; the request whose response is displayed
    \* ---- Dashboard ------------------------------------------------------
    dashMounted,       \* "no" before the Dashboard is mounted, then "yes"
    dashStats,         \* stats
    analytics,         \* analytics (the days it was loaded for, 0 = null)
    activities,        \* activities
    dashLoading,       \* loading
    dashError,         \* error
    timeRange,         \* timeRange
    dashRuns,          \* loadData runs in flight, each at its await
    dashRunNext,       \* number of the next run
    lastRun,           \* history: the run started last: what failed in it, the
                       \* stats it loaded, the requests it has issued
    \* ---- ApiLogs / System ----------------------------------------------
    pollKind,          \* "apilogs" or "system"
    pollMounted,       \* "no" before the page is mounted, "yes", "gone" after
    autoRefresh,       \* ApiLogs: autoRefresh
    intervals,         \* the intervals the browser keeps (setInterval)
    effInterval,       \* the handle the effect's cleanup will clear (0 = null)
    pollLoading,       \* loading
    logs,              \* ApiLogs: logs
    logStats,          \* ApiLogs: stats (-1 = null)
    health,            \* System: health (-1 = null)
    logFilter,         \* ApiLogs: filter
    pollReqs,          \* log / health requests in flight
    pollReqNext        \* number of the next such request

authVars == <<appVersion, adminToken, appLoading, isAuthenticated, route,
              loginLoading, loginError, inflight, nextId, navPending,
              settled, loginAfter401, bootCause, sinceLogout>>

listVars == <<pageKind, mounted, rows, pagination, loading, search, filter,
              selected, showModal, timers, effTimer, reqs, reqNext, db,
              listSent, quiet, burst, lastList>>

dashVars == <<dashMounted, dashStats, analytics, activities, dashLoading,
              dashError, timeRange, dashRuns, dashRunNext, lastRun>>

pollVars == <<pollKind, pollMounted, autoRefresh, intervals, effInterval,
              pollLoading, logs, logStats, health, logFilter, pollReqs,
              pollReqNext>>

vars == <<lastStep, authVars, listVars, dashVars, pollVars>>

\* What each specification leaves at rest.
notAuth == <<listVars, dashVars, pollVars>>
notList == <<authVars, dashVars, pollVars>>
notDash == <<authVars, listVars, pollVars>>
notPoll == <<authVars, listVars, dashVars>>

-----------------------------------------------------------------------------
(* Bounds *)

\* Requests one page load may send before the model stops sending.
MaxRequests == 3

\* Records the backend holds when the list page is mounted.
MaxRecords == 3

\* Page size of the list requests (the pages ask for 20, 24 or 50 rows).
Limit == 1

\* Rows per page where the detail modal is followed with two users in view.
ModalLimit == 2

\* Requests a list page may send before the model stops sending.
MaxReqs == 4

\* Highest page number Next may reach.
MaxPage == 3

\* Requests of a list page in flight at the same time.
MaxInFlight == 2

\* Links of a chain of requests, each caused by storing the response to the
\* one before, that the model follows.
MaxChain == 2

\* loadData runs the Dashboard may start.
MaxRuns == 3

\* Log / health requests a polling page may send.
MaxPollReqs == 5

-----------------------------------------------------------------------------
(* Values *)

\* localStorage.getItem returns null for a missing key.
Null == "<null>"

\* Token strings a backend may hand out; the empty string is a string too.
Tokens == {"", "tokA", "tokB"}

\* No Authorization header on the request.
NoHeader == <<>>

\* HTTP status the response interceptor reacts to.
Unauthorized == 401

\* Statuses of a response; 0 stands for "no response" (network error, timeout).
Statuses == {0, 200, Unauthorized, 500}

\* message fields a backend may put into a body ("" = absent or empty).
Messages == {"", "Bad credentials"}

AppVersions == {"earlier", "current"}

\* JavaScript truthiness of a string-or-null value.
Truthy(v) == v # Null /\ v # ""

\* a || b on strings
OrElse(a, b) == IF Truthy(a) THEN a ELSE b

\* `Bearer ${token}`
Bearer(token) == <<"Bearer", token>>

-----------------------------------------------------------------------------
(* App, Login and the api client *)

\* The routes App declares inside Layout, by the page they show.
Pages(v) ==
    IF v = "current"
    THEN {"dashboard", "users", "couples", "memories", "messages", "apiLogs", "system"}
    ELSE {"dashboard", "users", "couples", "memories", "messages", "settings"}

ProtectedPages == Pages("current") \cup Pages("earlier")

\* What App renders: the spinner, the Login screen, or Layout with a page.
Screen ==
    IF appLoading THEN "spinner"
    ELSE IF ~isAuthenticated THEN "login"
    ELSE route

\* Login's catch: the text shown when the response carries no message.
DefaultLoginError(v) ==
    IF v = "current" THEN "Invalid credentials" ELSE "Login failed. Please try again."

NoSettle == [id |-> 0, kind |-> "none", outcome |-> "none", status |-> 0,
             success |-> FALSE, token |-> Null]

\* Responses to POST /admin/login: 2xx bodies {success, data.token, message},
\* error statuses with an optional message, or no response at all.
LoginResponses ==
    {[status |-> 200, success |-> TRUE, token |-> t, message |-> ""] : t \in Tokens}
    \cup {[status |-> 200, success |-> FALSE, token |-> Null, message |-> m] : m \in Messages}
    \cup {[status |-> s, success |-> FALSE, token |-> Null, message |-> m] :
             s \in {Unauthorized, 500}, m \in Messages}
    \cup {[status |-> 0, success |-> FALSE, token |-> Null, message |-> ""]}

\* Mutant: the interceptor never sets the header.
RequestInterceptor_NoHeader(tok) == NoHeader

\* api.interceptors.request: the header the request leaves with.
RequestInterceptor(tok) ==
    IF Truthy(tok) THEN Bearer(tok) ELSE NoHeader

\* A request through the api client; the interceptor reads localStorage now.
Send(kind) ==
    /\ nextId <= MaxRequests
    /\ inflight' = inflight \cup
           {[id |-> nextId, kind |-> kind, auth |-> RequestInterceptor(adminToken)]}
    /\ nextId' = nextId + 1

\* Mutant: a 401 navigates to '/' but leaves admin_token in place.
OnRejected_KeepToken(status) ==
    IF status = Unauthorized
    THEN /\ navPending' = TRUE
         /\ loginAfter401' = FALSE
         /\ UNCHANGED adminToken
    ELSE UNCHANGED <<adminToken, navPending, loginAfter401>>

\* api.interceptors.response, error branch: what it does to the browser.
OnRejected(status) ==
    IF status = Unauthorized
    THEN /\ adminToken' = Null
         /\ navPending' = TRUE
         /\ loginAfter401' = FALSE
    ELSE UNCHANGED <<adminToken, navPending, loginAfter401>>

\* App.handleLogin
handleLogin(token) ==
    /\ adminToken' = token
    /\ isAuthenticated' = TRUE

\* Mutant: the start-up check authenticates without looking at the token.
StartupCheck_NoTokenTest ==
    /\ UNCHANGED notAuth
    /\ appLoading
    /\ isAuthenticated' = TRUE
    /\ appLoading' = FALSE
    /\ lastStep' = "StartupCheck"
    /\ UNCHANGED <<appVersion, adminToken, route, loginLoading, loginError,
                   inflight, nextId, navPending, settled, loginAfter401, bootCause,
                   sinceLogout>>

\* App.useEffect: the start-up check, once after the first render.
StartupCheck ==
    /\ UNCHANGED notAuth
    /\ appLoading
    /\ isAuthenticated' = IF Truthy(adminToken) THEN TRUE ELSE isAuthenticated
    /\ appLoading' = FALSE
    /\ lastStep' = "StartupCheck"
    /\ UNCHANGED <<appVersion, adminToken, route, loginLoading, loginError,
                   inflight, nextId, navPending, settled, loginAfter401, bootCause,
                   sinceLogout>>

\* Login.handleSubmit up to the await; the button is disabled while loading.
LoginSubmit ==
    /\ UNCHANGED notAuth
    /\ Screen = "login"
    /\ ~loginLoading
    /\ loginError' = ""
    /\ loginLoading' = TRUE
    /\ Send("login")
    /\ lastStep' = "LoginSubmit"
    /\ UNCHANGED <<appVersion, adminToken, appLoading, isAuthenticated, route,
                   navPending, settled, loginAfter401, bootCause, sinceLogout>>

\* Login.handleSubmit after the await: try / catch / finally.
LoginSettle(r, resp) ==
    /\ IF resp.status = 200
       THEN /\ IF resp.success
               THEN /\ handleLogin(resp.token)
                    /\ loginAfter401' = TRUE
                    /\ UNCHANGED loginError
               ELSE /\ loginError' = IF appVersion = "current"
                                     THEN OrElse(resp.message, "Login failed")
                                     ELSE loginError
                    /\ UNCHANGED <<adminToken, isAuthenticated, loginAfter401>>
            /\ UNCHANGED navPending
       ELSE /\ OnRejected(resp.status)
            /\ loginError' = OrElse(resp.message, DefaultLoginError(appVersion))
            /\ UNCHANGED isAuthenticated
    /\ loginLoading' = FALSE
    /\ inflight' = inflight \ {r}
    /\ settled' = [id |-> r.id, kind |-> r.kind,
                   outcome |-> IF resp.status = 200 THEN "resolved" ELSE "rejected",
                   status |-> resp.status, success |-> resp.success, token |-> resp.token]

DeliverLogin ==
    \E r \in inflight : \E resp \in LoginResponses :
        /\ UNCHANGED notAuth
        /\ r.kind = "login"
        /\ LoginSettle(r, resp)
        /\ sinceLogout' = IF sinceLogout = "out" /\ resp.status = 200 /\ resp.success
                          THEN "back" ELSE sinceLogout
        /\ lastStep' = "DeliverLogin"
        /\ UNCHANGED <<appVersion, appLoading, route, nextId, bootCause>>

\* Any request a mounted page sends (a read or a mutation).
PageSend ==
    /\ UNCHANGED notAuth
    /\ Screen \in Pages(appVersion)
    /\ Send("page")
    /\ lastStep' = "PageSend"
    /\ UNCHANGED <<appVersion, adminToken, appLoading, isAuthenticated, route,
                   loginLoading, loginError, navPending, settled, loginAfter401,
                   bootCause, sinceLogout>>

\* The response to a page's request passes the response interceptor and
\* reaches the page's own try / catch.
PageSettle(r, status) ==
    /\ IF status = 200
       THEN UNCHANGED <<adminToken, navPending, loginAfter401>>
       ELSE OnRejected(status)
    /\ inflight' = inflight \ {r}
    /\ settled' = [id |-> r.id, kind |-> r.kind,
                   outcome |-> IF status = 200 THEN "resolved" ELSE "rejected",
                   status |-> status, success |-> (status = 200), token |-> Null]

DeliverPage ==
    \E r \in inflight : \E status \in Statuses :
        /\ UNCHANGED notAuth
        /\ r.kind = "page"
        /\ PageSettle(r, status)
        /\ lastStep' = "DeliverPage"
        /\ UNCHANGED <<appVersion, appLoading, isAuthenticated, route, loginLoading,
                       loginError, nextId, bootCause, sinceLogout>>

\* A click on a NavLink of Layout.
Navigate ==
    \E p \in Pages(appVersion) :
        /\ UNCHANGED notAuth
        /\ Screen \in Pages(appVersion)
        /\ p # route
        /\ route' = p
        /\ lastStep' = "Navigate"
        /\ UNCHANGED <<appVersion, adminToken, appLoading, isAuthenticated,
                       loginLoading, loginError, inflight, nextId, navPending,
                       settled, loginAfter401, bootCause, sinceLogout>>

\* Mutant: the logout leaves admin_token in localStorage.
handleLogout_KeepToken ==
    /\ UNCHANGED notAuth
    /\ appVersion = "earlier"
    /\ Screen \in Pages(appVersion)
    /\ isAuthenticated' = FALSE
    /\ loginLoading' = FALSE
    /\ loginError' = ""
    /\ sinceLogout' = "out"
    /\ lastStep' = "handleLogout"
    /\ UNCHANGED <<appVersion, adminToken, appLoading, route, inflight, nextId,
                   navPending, settled, loginAfter401, bootCause>>

\* App.handleLogout (earlier App only), reached from Layout's Logout button.
\* Login mounts afresh.
handleLogout ==
    /\ UNCHANGED notAuth
    /\ appVersion = "earlier"
    /\ Screen \in Pages(appVersion)
    /\ adminToken' = Null
    /\ isAuthenticated' = FALSE
    /\ loginLoading' = FALSE
    /\ loginError' = ""
    /\ sinceLogout' = "out"
    /\ lastStep' = "handleLogout"
    /\ UNCHANGED <<appVersion, appLoading, route, inflight, nextId, navPending,
                   settled, loginAfter401, bootCause>>

\* The document is replaced: the navigation a 401 asked for, or a refresh by
\* the admin.  React state starts over, requests of the old document are gone,
\* localStorage stays.
Reload ==
    /\ UNCHANGED notAuth
    /\ appLoading' = TRUE
    /\ isAuthenticated' = FALSE
    /\ route' = IF navPending THEN "dashboard" ELSE route
    /\ loginLoading' = FALSE
    /\ loginError' = ""
    /\ inflight' = {}
    /\ nextId' = 1
    /\ navPending' = FALSE
    /\ settled' = NoSettle
    /\ bootCause' = IF navPending THEN "401" ELSE "refresh"
    /\ lastStep' = "Reload"
    /\ UNCHANGED <<appVersion, adminToken, loginAfter401, sinceLogout>>

InitAuth ==
    /\ appVersion \in AppVersions
    /\ adminToken \in Tokens \cup {Null}
    /\ appLoading = TRUE
    /\ isAuthenticated = FALSE
    /\ route = "dashboard"
    /\ loginLoading = FALSE
    /\ loginError = ""
    /\ inflight = {}
    /\ nextId = 1
    /\ navPending = FALSE
    /\ settled = NoSettle
    /\ loginAfter401 = FALSE
    /\ bootCause = "open"
    /\ sinceLogout = "no"

-----------------------------------------------------------------------------
(* The paginated list pages and the backend they read *)

PageKinds == {"users", "couples", "memories", "messages", "usersOld", "messagesOld"}

\* The earlier Users and Messages pages: page / totalPages, no debounce,
\* optimistic delete.
IsOld(k) == k \in {"usersOld", "messagesOld"}

\* Pages with a search box.
HasSearch(k) == k # "messagesOld"

\* Pages with a filter control next to the search box.
HasFilter(k) == k \in {"users", "memories", "messages", "messagesOld"}

Ids == 1 .. MaxRecords
Searches == {"", "a"}
Filters == {"", "f"}

\* The backend's matching of a record against search text and filter.
MatchSearch(x, s) == s = "" \/ x >= 2
MatchFilter(x, f) == f = "" \/ x # 2
Matching(d, s, f) == {x \in d : MatchSearch(x, s) /\ MatchFilter(x, f)}

CeilDiv(a, b) == (a + b - 1) \div b
Rank(x, S) == Cardinality({y \in S : y <= x})
PageOf(S, p, lim) == {x \in S : Rank(x, S) > (p - 1) * lim /\ Rank(x, S) <= p * lim}

\* res.data.data of a list endpoint: the rows of the page asked for and
\* {page, limit, total, pages}.
ListResponse(d, p, lim, s, f) ==
    LET m == Matching(d, s, f)
    IN  [rows |-> PageOf(m, p, lim),
         pagination |-> [page |-> p, limit |-> lim, total |-> Cardinality(m),
                         pages |-> CeilDiv(Cardinality(m), lim)]]

\* useState initial values of pagination (earlier pages: page 1, totalPages 1).
InitPagination(k) ==
    [page |-> 1, limit |-> Limit, total |-> 0, pages |-> IF IsOld(k) THEN 1 ELSE 0]

NoResp == [rows |-> {}, pagination |-> InitPagination("users")]
NoTimer == [page |-> 0, search |-> "", filter |-> ""]

\* What a render's closures see of the request parameters.
Cur == [page |-> pagination.page, search |-> search, filter |-> filter]

\* adminApi.getUsers / getCouples / getMemories / getMessages
ListReq(id, c) ==
    [id |-> id, type |-> "list", op |-> "get", target |-> 0,
     page |-> c.page, search |-> c.search, filter |-> c.filter,
     rows |-> {}, sel |-> 0, confirmed |-> FALSE, phase |-> "sent", ok |-> FALSE,
     resp |-> NoResp, gen |-> 0]

\* loadUsers / loadCouples / loadMemories / loadMessages, once per closure in
\* ls: setLoading(true) and the list request with the closure's parameters.
Loads(kept, ls, base) ==
    /\ Len(ls) > 0 => reqNext + Len(ls) - 1 <= MaxReqs
    /\ Cardinality(kept) + Len(ls) <= MaxInFlight
    /\ reqs' = kept \cup {ListReq(reqNext + i - 1, ls[i]) : i \in 1 .. Len(ls)}
    /\ reqNext' = reqNext + Len(ls)
    /\ listSent' = listSent + Len(ls)
    /\ loading' = IF Len(ls) > 0 THEN TRUE ELSE base

\* The same loads when the render that runs the effect was caused by storing
\* a response: the request is one link further down the chain that began
\* with a request the admin, the mount or the timer caused.
Reloads(kept, ls, g) ==
    /\ Len(ls) > 0 => g <= MaxChain
    /\ Cardinality(kept) + Len(ls) <= MaxInFlight
    /\ reqs' = kept \cup {[ListReq(reqNext + i - 1, ls[i]) EXCEPT !.gen = g] :
                               i \in 1 .. Len(ls)}
    /\ reqNext' = reqNext + Len(ls)
    /\ listSent' = listSent + Len(ls)
    /\ loading' = (Len(ls) > 0)

\* useEffect(() => { load() }, [pagination.page, filter]) (earlier Users:
\* [page, search]): runs after a render in which a dependency changed, with
\* that render's values.
EffectLoad(newPage, newSearch, newFilter) ==
    IF \/ newPage # pagination.page
       \/ newFilter # filter
       \/ IsOld(pageKind) /\ newSearch # search
    THEN <<[page |-> newPage, search |-> newSearch, filter |-> newFilter]>>
    ELSE <<>>

\* Mutant: the search effect returns no cleanup.
ArmDebounce_NoCleanup(c) ==
    /\ timers' = timers \cup {c}
    /\ effTimer' = c

\* useEffect(..., [search]): the cleanup of the previous run (clearTimeout),
\* then setTimeout(..., 300) with this render's closure.
ArmDebounce(c) ==
    /\ timers' = (timers \ {effTimer}) \cup {c}
    /\ effTimer' = c

\* Edits since the debounce callback last ran: 0, 1, 2 for two or more; 3
\* once the callback has run after two or more.
Bump(n) == IF n \in {1, 2} THEN 2 ELSE 1

\* The page is mounted: useState initial values, then both effects run.
Mount ==
    /\ mounted = "no"
    /\ mounted' = "yes"
    /\ Loads(reqs, <<Cur>>, TRUE)
    /\ IF IsOld(pageKind)
       THEN UNCHANGED <<timers, effTimer>>
       ELSE ArmDebounce(Cur)
    /\ lastStep' = "Mount"
    /\ UNCHANGED lastList
    /\ UNCHANGED <<pageKind, rows, pagination, search, filter, selected, showModal,
                   db, quiet, burst>>
    /\ UNCHANGED notList

\* onChange of the search box on the current pages: setSearch, then the
\* search effect re-arms the timer.
EditSearch ==
    \E s \in Searches \ {search} :
        /\ mounted = "yes"
        /\ ~IsOld(pageKind)
        /\ reqNext <= MaxReqs
        /\ search' = s
        /\ ArmDebounce([page |-> pagination.page, search |-> s, filter |-> filter])
        /\ quiet' = FALSE
        /\ burst' = Bump(burst)
        /\ lastStep' = "EditSearch"
        /\ UNCHANGED lastList
        /\ UNCHANGED <<pageKind, mounted, rows, pagination, loading, filter, selected,
                       showModal, reqs, reqNext, db, listSent>>
        /\ UNCHANGED notList

\* onChange of the search box on the earlier Users page: search is a
\* dependency of the load effect.
EditSearchOld ==
    \E s \in Searches \ {search} :
        /\ mounted = "yes"
        /\ pageKind = "usersOld"
        /\ search' = s
        /\ Loads(reqs, EffectLoad(pagination.page, s, filter), loading)
        /\ quiet' = FALSE
        /\ lastStep' = "EditSearchOld"
        /\ UNCHANGED lastList
        /\ UNCHANGED <<pageKind, mounted, rows, pagination, filter, selected,
                       showModal, timers, effTimer, db, burst>>
        /\ UNCHANGED notList

\* The debounce callback, 300 ms after the last run of the search effect:
\* loadX() of its closure when the closure's page is 1, else
\* setPagination(p => ({...p, page: 1})) and the load effect if that changes
\* pagination.page.
TimerFire ==
    \E t \in timers :
        /\ mounted = "yes"
        /\ timers' = timers \ {t}
        /\ IF t.page = 1
           THEN /\ Loads(reqs, <<t>>, loading)
                /\ UNCHANGED pagination
           ELSE /\ Loads(reqs, EffectLoad(1, search, filter), loading)
                /\ pagination' = [pagination EXCEPT !.page = 1]
        /\ burst' = IF burst = 2 THEN 3 ELSE 0
        /\ lastStep' = "TimerFire"
        /\ UNCHANGED lastList
        /\ UNCHANGED <<pageKind, mounted, rows, search, filter, selected, showModal,
                       effTimer, db, quiet>>
        /\ UNCHANGED notList

\* statusFilter select (Users), typeFilter buttons (Messages), couple select
\* (Memories, which also sets page 1), coupleFilter box (earlier Messages).
SetFilter ==
    \E f \in Filters \ {filter} :
        /\ mounted = "yes"
        /\ HasFilter(pageKind)
        /\ filter' = f
        /\ LET newPage == IF pageKind = "memories" THEN 1 ELSE pagination.page
           IN  /\ pagination' = [pagination EXCEPT !.page = newPage]
               /\ Loads(reqs, EffectLoad(newPage, search, f), loading)
        /\ quiet' = FALSE
        /\ lastStep' = "SetFilter"
        /\ UNCHANGED lastList
        /\ UNCHANGED <<pageKind, mounted, rows, search, selected, showModal,
                       timers, effTimer, db, burst>>
        /\ UNCHANGED notList

\* Memories: the 'Clear filter' button, setSelectedCouple('').
ClearFilter ==
    /\ mounted = "yes"
    /\ pageKind = "memories"
    /\ filter # ""
    /\ filter' = ""
    /\ Loads(reqs, EffectLoad(pagination.page, search, ""), loading)
    /\ quiet' = FALSE
    /\ lastStep' = "ClearFilter"
    /\ UNCHANGED lastList
    /\ UNCHANGED <<pageKind, mounted, rows, pagination, search, selected, showModal,
                   timers, effTimer, db, burst>>
    /\ UNCHANGED notList

Max(a, b) == IF a >= b THEN a ELSE b
Min(a, b) == IF a <= b THEN a ELSE b

\* The pagination controls are rendered.
ControlsShown == mounted = "yes" /\ pagination.pages > 1

\* 'Showing X to Y of total': the two numbers the summary line computes.
ShowingFrom(pg) == (pg.page - 1) * pg.limit + 1
ShowingTo(pg) == Min(pg.page * pg.limit, pg.total)

\* The page the Previous button sets.
PrevPage(k, pg) ==
    IF IsOld(k) THEN Max(1, pg.page - 1) ELSE pg.page - 1

\* The page the Next button sets.
NextPage(k, pg) ==
    IF IsOld(k) THEN Min(pg.pages, pg.page + 1) ELSE pg.page + 1

\* Previous: disabled on page 1.
Previous ==
    /\ ControlsShown
    /\ pagination.page # 1
    /\ LET newPage == PrevPage(pageKind, pagination)
       IN  /\ pagination' = [pagination EXCEPT !.page = newPage]
           /\ Loads(reqs, EffectLoad(newPage, search, filter), loading)
    /\ quiet' = FALSE
    /\ lastStep' = "Previous"
    /\ UNCHANGED lastList
    /\ UNCHANGED <<pageKind, mounted, rows, search, filter, selected, showModal,
                   timers, effTimer, db, burst>>
    /\ UNCHANGED notList

\* Next: disabled when page equals the page count.
NextClick ==
    /\ ControlsShown
    /\ pagination.page # pagination.pages
    /\ pagination.page < MaxPage
    /\ LET newPage == NextPage(pageKind, pagination)
       IN  /\ pagination' = [pagination EXCEPT !.page = newPage]
           /\ Loads(reqs, EffectLoad(newPage, search, filter), loading)
    /\ quiet' = FALSE
    /\ lastStep' = "Next"
    /\ UNCHANGED lastList
    /\ UNCHANGED <<pageKind, mounted, rows, search, filter, selected, showModal,
                   timers, effTimer, db, burst>>
    /\ UNCHANGED notList

\* Earlier Users: the search form's submit, setPage(1); loadUsers().
handleSearch ==
    /\ mounted = "yes"
    /\ pageKind = "usersOld"
    /\ pagination' = [pagination EXCEPT !.page = 1]
    /\ Loads(reqs, <<Cur>> \o EffectLoad(1, search, filter), loading)
    /\ quiet' = FALSE
    /\ lastStep' = "handleSearch"
    /\ UNCHANGED lastList
    /\ UNCHANGED <<pageKind, mounted, rows, search, filter, selected, showModal,
                   timers, effTimer, db, burst>>
    /\ UNCHANGED notList

\* The mutation buttons of a table row.
RowOps(k) ==
    CASE k = "users" -> {"ban", "delete"}
      [] k \in {"messages", "usersOld", "messagesOld"} -> {"delete"}
      [] OTHER -> {}

\* The mutation buttons of the detail modal.
ModalOps(k) ==
    CASE k = "users" -> {"verify", "ban", "delete"}
      [] k = "couples" -> {"breakup"}
      [] k \in {"memories", "usersOld"} -> {"delete"}
      [] OTHER -> {}

\* The handler opens with `if (!confirm(...)) return;`.
AsksConfirm(op) == op # "verify"

\* The detail modal is rendered.
ModalOpen == mounted = "yes" /\ showModal /\ selected # 0

\* The mutation buttons on screen, each with the record it acts on; the table
\* shows a spinner instead of rows while loading.
Buttons ==
    {<<op, x>> : op \in RowOps(pageKind), x \in IF loading THEN {} ELSE rows}
    \cup {<<op, x>> : op \in ModalOps(pageKind), x \in IF ModalOpen THEN {selected} ELSE {}}

\* updateUser / deleteUser / deleteCouple / deleteMemory / deleteMessage with
\* what the handler's closure holds for the code after the await.
MutReq(id, op, x, confirmed) ==
    [id |-> id, type |-> "mutate", op |-> op, target |-> x,
     page |-> IF IsOld(pageKind) THEN 0 ELSE pagination.page,
     search |-> IF IsOld(pageKind) THEN "" ELSE search,
     filter |-> IF IsOld(pageKind) THEN "" ELSE filter,
     rows |-> IF IsOld(pageKind) THEN rows ELSE {},
     sel |-> IF op \in {"ban", "verify"} THEN selected ELSE 0, confirmed |-> confirmed, phase |-> "sent",
     ok |-> FALSE, resp |-> NoResp, gen |-> 0]

\* adminApi.getUser / getCouple
DetailReq(id, x) ==
    [id |-> id, type |-> "detail", op |-> "get", target |-> x,
     page |-> 0, search |-> "", filter |-> "",
     rows |-> {}, sel |-> 0, confirmed |-> FALSE, phase |-> "sent",
     ok |-> FALSE, resp |-> NoResp, gen |-> 0]

\* A click on a mutation button whose handler gets past its confirm dialog
\* (or has none): the mutation request is sent.
ClickMutation ==
    \E b \in Buttons :
        /\ mounted = "yes"
        /\ reqNext <= MaxReqs
        /\ Cardinality(reqs) < MaxInFlight
        /\ reqs' = reqs \cup {MutReq(reqNext, b[1], b[2], AsksConfirm(b[1]))}
        /\ reqNext' = reqNext + 1
        /\ quiet' = FALSE
        /\ lastStep' = "ClickMutation"
        /\ UNCHANGED lastList
        /\ UNCHANGED <<pageKind, mounted, rows, pagination, loading, search, filter,
                       selected, showModal, timers, effTimer, db, listSent, burst>>
        /\ UNCHANGED notList

\* A click on a mutation button whose confirm dialog the admin declines: the
\* handler returns at once.
DeclineDialog ==
    \E b \in Buttons :
        /\ mounted = "yes"
        /\ AsksConfirm(b[1])
        /\ quiet' = FALSE
        /\ lastStep' = "DeclineDialog"
        /\ UNCHANGED lastList
        /\ UNCHANGED <<pageKind, mounted, rows, pagination, loading, search, filter,
                       selected, showModal, timers, effTimer, reqs, reqNext, db,
                       listSent, burst>>
        /\ UNCHANGED notList

\* The View button of a row: viewUser / viewCouple fetch the detail first;
\* Memories and the earlier Users set the selection at once.
OpenModal ==
    \E x \in rows :
        /\ mounted = "yes"
        /\ ~loading
        /\ pageKind \in {"users", "couples", "memories", "usersOld"}
        /\ IF pageKind \in {"users", "couples"}
           THEN /\ reqNext <= MaxReqs
                /\ Cardinality(reqs) < MaxInFlight
                /\ reqs' = reqs \cup {DetailReq(reqNext, x)}
                /\ reqNext' = reqNext + 1
                /\ UNCHANGED <<selected, showModal>>
           ELSE /\ selected' = x
                /\ showModal' = TRUE
                /\ UNCHANGED <<reqs, reqNext>>
        /\ quiet' = FALSE
        /\ lastStep' = "OpenModal"
        /\ UNCHANGED lastList
        /\ UNCHANGED <<pageKind, mounted, rows, pagination, loading, search, filter,
                       timers, effTimer, db, listSent, burst>>
        /\ UNCHANGED notList

\* The modal's close button: setShowModal(false) / setSelectedMemory(null).
CloseModal ==
    /\ ModalOpen
    /\ showModal' = FALSE
    /\ selected' = IF pageKind = "memories" THEN 0 ELSE selected
    /\ quiet' = FALSE
    /\ lastStep' = "CloseModal"
    /\ UNCHANGED lastList
    /\ UNCHANGED <<pageKind, mounted, rows, pagination, loading, search, filter,
                   timers, effTimer, reqs, reqNext, db, listSent, burst>>
    /\ UNCHANGED notList

\* The backend handles a request: it answers a list request from the records
\* it holds now, and a successful delete removes the record.
ServerAnswer ==
    \E r \in reqs : \E ok \in BOOLEAN :
        /\ r.phase = "sent"
        /\ LET resp == IF r.type = "list" /\ ok
                       THEN ListResponse(db, r.page, pagination.limit, r.search, r.filter)
                       ELSE NoResp
           IN  reqs' = (reqs \ {r}) \cup
                   {[r EXCEPT !.phase = "answered", !.ok = ok, !.resp = resp]}
        /\ db' = IF r.type = "mutate" /\ ok /\ r.op \in {"delete", "breakup"}
                 THEN db \ {r.target}
                 ELSE db
        /\ lastStep' = "ServerAnswer"
        /\ UNCHANGED lastList
        /\ UNCHANGED <<pageKind, mounted, rows, pagination, loading, search, filter,
                       selected, showModal, timers, effTimer, reqNext, listSent,
                       quiet, burst>>
        /\ UNCHANGED notList

\* A variant whose catch branch clears the rows, as the earlier pages do.
ListSettle_ClearsOnFailure(r) ==
    IF r.ok
    THEN /\ rows' = r.resp.rows
         /\ pagination' = r.resp.pagination
         /\ Reloads(reqs \ {r}, EffectLoad(r.resp.pagination.page, search, filter),
                    r.gen + 1)
    ELSE /\ rows' = {}
         /\ UNCHANGED pagination
         /\ Loads(reqs \ {r}, <<>>, FALSE)

\* loadX after its await on a current page: try (setRows, setPagination),
\* catch (log only), finally setLoading(false); then the load effect if the
\* response changed pagination.page.
ListSettle(r) ==
    IF r.ok
    THEN /\ rows' = r.resp.rows
         /\ pagination' = r.resp.pagination
         /\ Reloads(reqs \ {r}, EffectLoad(r.resp.pagination.page, search, filter),
                    r.gen + 1)
    ELSE /\ UNCHANGED <<rows, pagination>>
         /\ Loads(reqs \ {r}, <<>>, FALSE)

\* loadUsers / loadMessages after the await on the earlier pages.
ListSettleOld(r) ==
    IF r.ok
    THEN /\ rows' = r.resp.rows
         /\ pagination' = [pagination EXCEPT
                !.pages = IF r.resp.pagination.pages = 0 THEN 1
                          ELSE r.resp.pagination.pages]
         /\ Loads(reqs \ {r}, <<>>, FALSE)
    ELSE /\ rows' = {}
         /\ UNCHANGED pagination
         /\ Loads(reqs \ {r}, <<>>, FALSE)

DeliverList ==
    \E r \in reqs :
        /\ mounted = "yes"
        /\ r.type = "list"
        /\ r.phase = "answered"
        /\ IF IsOld(pageKind) THEN ListSettleOld(r) ELSE ListSettle(r)
        /\ lastList' = [id |-> r.id, ok |-> r.ok,
                        from |-> IF r.ok THEN r.id ELSE lastList.from]
        /\ lastStep' = "DeliverList"
        /\ UNCHANGED <<pageKind, mounted, search, filter, selected, showModal,
                       timers, effTimer, db, quiet, burst>>
        /\ UNCHANGED notList

\* The handler of a mutation after its await, with the closure of the click.
\* Current pages reload the list; toggleBan / toggleVerify also rewrite
\* selectedUser from the closure; the earlier pages filter the closure's rows.
MutationSettle(r) ==
    IF ~r.ok
    THEN /\ UNCHANGED <<rows, pagination, selected, showModal>>
         /\ Loads(reqs \ {r}, <<>>, loading)
    ELSE IF IsOld(pageKind)
    THEN /\ rows' = r.rows \ {r.target}
         /\ showModal' = IF pageKind = "usersOld" THEN FALSE ELSE showModal
         /\ UNCHANGED <<pagination, selected>>
         /\ Loads(reqs \ {r}, <<>>, loading)
    ELSE /\ Loads(reqs \ {r},
                  <<[page |-> r.page, search |-> r.search, filter |-> r.filter]>>,
                  loading)
         /\ selected' = CASE r.op \in {"ban", "verify"} ->
                               IF r.sel = r.target THEN r.sel ELSE selected
                          [] pageKind = "memories" -> 0
                          [] OTHER -> selected
         /\ showModal' = IF r.op \in {"ban", "verify"} THEN showModal ELSE FALSE
         /\ UNCHANGED <<rows, pagination>>

DeliverMutation ==
    \E r \in reqs :
        /\ mounted = "yes"
        /\ r.type = "mutate"
        /\ r.phase = "answered"
        /\ MutationSettle(r)
        /\ lastStep' = "DeliverMutation"
        /\ UNCHANGED lastList
        /\ UNCHANGED <<pageKind, mounted, search, filter, timers, effTimer, db,
                       quiet, burst>>
        /\ UNCHANGED notList

\* viewUser / viewCouple after the await.
DeliverDetail ==
    \E r \in reqs :
        /\ mounted = "yes"
        /\ r.type = "detail"
        /\ r.phase = "answered"
        /\ reqs' = reqs \ {r}
        /\ selected' = IF r.ok THEN r.target ELSE selected
        /\ showModal' = IF r.ok THEN TRUE ELSE showModal
        /\ lastStep' = "DeliverDetail"
        /\ UNCHANGED lastList
        /\ UNCHANGED <<pageKind, mounted, rows, pagination, loading, search, filter,
                       timers, effTimer, reqNext, db, listSent, quiet, burst>>
        /\ UNCHANGED notList

\* The admin leaves the page: the search effect's cleanup clears its timer;
\* what is still in flight settles on an unmounted component.
Unmount ==
    /\ mounted = "yes"
    /\ mounted' = "gone"
    /\ timers' = timers \ {effTimer}
    /\ reqs' = {}
    /\ lastStep' = "Unmount"
    /\ UNCHANGED lastList
    /\ UNCHANGED <<pageKind, rows, pagination, loading, search, filter, selected,
                   showModal, effTimer, reqNext, db, listSent, quiet, burst>>
    /\ UNCHANGED notList

InitList ==
    /\ pageKind \in PageKinds
    /\ mounted = "no"
    /\ rows = {}
    /\ pagination = InitPagination(pageKind)
    /\ loading = TRUE
    /\ search = ""
    /\ filter = ""
    /\ selected = 0
    /\ showModal = FALSE
    /\ timers = {}
    /\ effTimer = NoTimer
    /\ reqs = {}
    /\ reqNext = 1
    /\ db = Ids
    /\ listSent = 0
    /\ quiet = TRUE
    /\ burst = 0
    /\ lastList = [id |-> 0, ok |-> FALSE, from |-> 0]

\* The Users page with ModalLimit rows per page.  Request numbers are labels
\* only; they start at 0 here so that the mount load, two detail requests, an
\* update and the reload that follows it stay within MaxReqs.
InitModal ==
    /\ pageKind = "users"
    /\ mounted = "no"
    /\ rows = {}
    /\ pagination = [InitPagination("users") EXCEPT !.limit = ModalLimit]
    /\ loading = TRUE
    /\ search = ""
    /\ filter = ""
    /\ selected = 0
    /\ showModal = FALSE
    /\ timers = {}
    /\ effTimer = NoTimer
    /\ reqs = {}
    /\ reqNext = 0
    /\ db = Ids
    /\ listSent = 0
    /\ quiet = TRUE
    /\ burst = 0
    /\ lastList = [id |-> 0, ok |-> FALSE, from |-> 0]

-----------------------------------------------------------------------------
(* The Dashboard *)

\* The options of the time-range select (days).
TimeRanges == {7, 14, 30, 90}

\* Payloads of /admin/stats.
StatsData == {"stats1", "stats2"}

\* data.data of the activity feed; the field may be missing.
ActivityData == {Null, "none", "feed1"}

\* err.response?.data?.message and err.message of a failed stats request.
ErrorBodies == {Null, "", "Stats unavailable"}
ErrorMessages == {"", "Network Error"}

\* err.response?.data?.message || err.message || 'Failed to load data'
ErrorText(body, msg) == OrElse(body, OrElse(msg, "Failed to load data"))

\* activityRes.data.data || []
ActivitiesOf(data) == IF data = Null THEN "none" ELSE data

\* The three returns of the component's render.
DashView ==
    IF dashLoading THEN "loading"
    ELSE IF Truthy(dashError) THEN "error"
    ELSE "content"

\* Mutant: loadData without setError(null).
BeginRun_KeepError(tr) ==
    /\ dashRunNext <= MaxRuns
    /\ dashLoading' = TRUE
    /\ dashRuns' = dashRuns \cup
           {[id |-> dashRunNext, phase |-> "stats", timeRange |-> tr,
             pending |-> {}, analytics |-> 0, activities |-> Null]}
    /\ dashRunNext' = dashRunNext + 1
    /\ lastRun' = [id |-> dashRunNext, statsFailed |-> FALSE,
                    extraFailed |-> FALSE, stats |-> Null, sent |-> {"stats"}]
    /\ UNCHANGED dashError

\* Mutant: loadData issues its three requests together.
BeginRun_AllAtOnce(tr) ==
    /\ dashRunNext <= MaxRuns
    /\ dashError' = Null
    /\ dashLoading' = TRUE
    /\ dashRuns' = dashRuns \cup
           {[id |-> dashRunNext, phase |-> "stats", timeRange |-> tr,
             pending |-> {"analytics", "activity"}, analytics |-> 0,
             activities |-> Null]}
    /\ dashRunNext' = dashRunNext + 1
    /\ lastRun' = [id |-> dashRunNext, statsFailed |-> FALSE,
                    extraFailed |-> FALSE, stats |-> Null,
                    sent |-> {"stats", "analytics", "activity"}]

\* loadData up to its first await: setError(null), setLoading(true), and the
\* stats request; timeRange is the value of the render that made the closure.
BeginRun(tr) ==
    /\ dashRunNext <= MaxRuns
    /\ dashError' = Null
    /\ dashLoading' = TRUE
    /\ dashRuns' = dashRuns \cup
           {[id |-> dashRunNext, phase |-> "stats", timeRange |-> tr,
             pending |-> {}, analytics |-> 0, activities |-> Null]}
    /\ dashRunNext' = dashRunNext + 1
    /\ lastRun' = [id |-> dashRunNext, statsFailed |-> FALSE,
                    extraFailed |-> FALSE, stats |-> Null, sent |-> {"stats"}]

\* The page is mounted: useState initial values, then the effect runs loadData.
DashMount ==
    /\ dashMounted = "no"
    /\ dashMounted' = "yes"
    /\ BeginRun(timeRange)
    /\ lastStep' = "DashMount"
    /\ UNCHANGED <<dashStats, analytics, activities, timeRange>>
    /\ UNCHANGED notDash

\* The Refresh button of the content view.
DashRefresh ==
    /\ dashMounted = "yes"
    /\ DashView = "content"
    /\ BeginRun(timeRange)
    /\ lastStep' = "DashRefresh"
    /\ UNCHANGED <<dashMounted, dashStats, analytics, activities, timeRange>>
    /\ UNCHANGED notDash

\* The Retry button of the error view.
DashRetry ==
    /\ dashMounted = "yes"
    /\ DashView = "error"
    /\ BeginRun(timeRange)
    /\ lastStep' = "DashRetry"
    /\ UNCHANGED <<dashMounted, dashStats, analytics, activities, timeRange>>
    /\ UNCHANGED notDash

\* The time-range select: setTimeRange, then the effect on [timeRange].
SetTimeRange ==
    \E v \in TimeRanges \ {timeRange} :
        /\ dashMounted = "yes"
        /\ DashView = "content"
        /\ timeRange' = v
        /\ BeginRun(v)
        /\ lastStep' = "SetTimeRange"
        /\ UNCHANGED <<dashMounted, dashStats, analytics, activities>>
        /\ UNCHANGED notDash

\* loadData after `await adminApi.getStats()`: setStats and the two optional
\* requests together, or the outer catch and finally.
StatsSettle ==
    \E r \in dashRuns : \E ok \in BOOLEAN :
        /\ r.phase = "stats"
        /\ IF ok
           THEN /\ \E d \in StatsData : dashStats' = d
                /\ dashRuns' = (dashRuns \ {r}) \cup
                       {[r EXCEPT !.phase = "extra",
                                  !.pending = {"analytics", "activity"}]}
                /\ lastRun' = IF lastRun.id = r.id
                              THEN [lastRun EXCEPT
                                       !.stats = dashStats',
                                       !.sent = {"stats", "analytics", "activity"}]
                              ELSE lastRun
                /\ UNCHANGED <<dashError, dashLoading>>
           ELSE /\ \E body \in ErrorBodies, msg \in ErrorMessages :
                       dashError' = ErrorText(body, msg)
                /\ dashLoading' = FALSE
                /\ dashRuns' = dashRuns \ {r}
                /\ lastRun' = IF lastRun.id = r.id
                              THEN [lastRun EXCEPT !.statsFailed = TRUE]
                              ELSE lastRun
                /\ UNCHANGED dashStats
        /\ lastStep' = "StatsSettle"
        /\ UNCHANGED <<dashMounted, analytics, activities, timeRange, dashRunNext>>
        /\ UNCHANGED notDash

\* Mutant: the inner catch reports the failure like the outer one.
InnerCatch_SetsError ==
    /\ dashError' = "Failed to load data"
    /\ UNCHANGED <<analytics, activities>>

\* catch (analyticsError): console.warn only.
InnerCatch == UNCHANGED <<analytics, activities, dashError>>

\* One of the two requests under Promise.all settles.  The first rejection
\* rejects the whole: inner catch, then finally.  When both are fulfilled:
\* setAnalytics, setActivities, then finally.
ExtraSettle ==
    \E r \in dashRuns : \E which \in r.pending : \E ok \in BOOLEAN :
    \E feed \in ActivityData :
        /\ r.phase = "extra"
        /\ LET got == IF which = "analytics"
                      THEN [r EXCEPT !.analytics = r.timeRange,
                                     !.pending = r.pending \ {which}]
                      ELSE [r EXCEPT !.activities = ActivitiesOf(feed),
                                     !.pending = r.pending \ {which}]
           IN  IF ~ok
               THEN /\ dashRuns' = dashRuns \ {r}
                    /\ dashLoading' = FALSE
                    /\ InnerCatch
                    /\ lastRun' = IF lastRun.id = r.id
                                  THEN [lastRun EXCEPT !.extraFailed = TRUE]
                                  ELSE lastRun
               ELSE IF got.pending = {}
               THEN /\ dashRuns' = dashRuns \ {r}
                    /\ dashLoading' = FALSE
                    /\ analytics' = got.analytics
                    /\ activities' = got.activities
                    /\ UNCHANGED <<dashError, lastRun>>
               ELSE /\ dashRuns' = (dashRuns \ {r}) \cup {got}
                    /\ UNCHANGED <<dashLoading, analytics, activities, dashError,
                                   lastRun>>
        /\ lastStep' = "ExtraSettle"
        /\ UNCHANGED <<dashMounted, dashStats, timeRange, dashRunNext>>
        /\ UNCHANGED notDash

InitDash ==
    /\ dashMounted = "no"
    /\ dashStats = Null
    /\ analytics = 0
    /\ activities = "none"
    /\ dashLoading = TRUE
    /\ dashError = Null
    /\ timeRange = 30
    /\ dashRuns = {}
    /\ dashRunNext = 1
    /\ lastRun = [id |-> 0, statsFailed |-> FALSE, extraFailed |-> FALSE,
                   stats |-> Null, sent |-> {}]

-----------------------------------------------------------------------------
(* The polling pages: ApiLogs and System *)

PollKinds == {"apilogs", "system"}

\* setInterval(loadLogs, 5000) / setInterval(loadHealth, 30000)
Period(k) == IF k = "apilogs" THEN 5000 ELSE 30000

\* Log entries a response may carry.
LogOk == [status |-> 200, duration |-> 40]
LogSlow == [status |-> 200, duration |-> 1500]
LogNotFound == [status |-> 404, duration |-> 40]
LogEdge == [status |-> 400, duration |-> 1000]
LogLists == {<<>>, <<LogOk, LogNotFound>>, <<LogSlow, LogOk, LogNotFound>>,
             <<LogEdge, LogSlow, LogOk, LogSlow>>}

LogFilters == {"all", "errors", "slow"}

\* Mutant: a request of exactly one second counts as slow.
filteredLogs_SlowInclusive ==
    SelectSeq(logs, LAMBDA log :
        IF logFilter = "errors" THEN log.status >= 400
        ELSE IF logFilter = "slow" THEN log.duration >= 1000
        ELSE TRUE)

\* logs.filter(...) of the render
filteredLogs ==
    SelectSeq(logs, LAMBDA log :
        IF logFilter = "errors" THEN log.status >= 400
        ELSE IF logFilter = "slow" THEN log.duration > 1000
        ELSE TRUE)

\* The effect keeps an interval: always on System, with autoRefresh on ApiLogs.
Polls(k, on) == k = "system" \/ on

\* Mutant: the effect returns no cleanup.
ClearInterval_Noop(h) == intervals

\* clearInterval(h); the cleanup skips it when the effect set no interval.
ClearInterval(h) == {i \in intervals : i.handle # h}

\* loadLogs / loadHealth up to the await.
PollLoad(by) ==
    /\ pollReqNext <= MaxPollReqs
    /\ pollReqs' = pollReqs \cup {[id |-> pollReqNext, by |-> by]}
    /\ pollReqNext' = pollReqNext + 1

\* The body of the effect: the load, then setInterval when polling is on;
\* the handle stays in the closure of the cleanup.
PollEffect(kept, on) ==
    /\ PollLoad("effect")
    /\ IF Polls(pollKind, on)
       THEN /\ intervals' = kept \cup
                   {[handle |-> pollReqNext, period |-> Period(pollKind)]}
            /\ effInterval' = pollReqNext
       ELSE /\ intervals' = kept
            /\ effInterval' = 0

\* The page is mounted: the effect runs.
PollMount ==
    /\ pollMounted = "no"
    /\ pollMounted' = "yes"
    /\ PollEffect(intervals, autoRefresh)
    /\ lastStep' = "PollMount"
    /\ UNCHANGED <<pollKind, autoRefresh, pollLoading, logs, logStats, health,
                   logFilter>>
    /\ UNCHANGED notPoll

\* The auto-refresh checkbox: setAutoRefresh, then the effect on
\* [autoRefresh]: cleanup of the previous run, then the body.
ToggleAutoRefresh ==
    /\ pollMounted = "yes"
    /\ pollKind = "apilogs"
    /\ ~pollLoading
    /\ autoRefresh' = ~autoRefresh
    /\ PollEffect(ClearInterval(effInterval), ~autoRefresh)
    /\ lastStep' = "ToggleAutoRefresh"
    /\ UNCHANGED <<pollKind, pollMounted, pollLoading, logs, logStats, health,
                   logFilter>>
    /\ UNCHANGED notPoll

\* An interval comes due: its callback runs loadLogs / loadHealth.
Tick ==
    \E i \in intervals :
        /\ PollLoad("tick")
        /\ lastStep' = "Tick"
        /\ UNCHANGED <<pollKind, pollMounted, autoRefresh, intervals, effInterval,
                       pollLoading, logs, logStats, health, logFilter>>
        /\ UNCHANGED notPoll

\* The Refresh button.
PollRefresh ==
    /\ pollMounted = "yes"
    /\ ~pollLoading
    /\ PollLoad("click")
    /\ lastStep' = "PollRefresh"
    /\ UNCHANGED <<pollKind, pollMounted, autoRefresh, intervals, effInterval,
                   pollLoading, logs, logStats, health, logFilter>>
    /\ UNCHANGED notPoll

\* The filter buttons of ApiLogs: setFilter.
SetLogFilter ==
    \E f \in LogFilters \ {logFilter} :
        /\ pollMounted = "yes"
        /\ pollKind = "apilogs"
        /\ ~pollLoading
        /\ logFilter' = f
        /\ lastStep' = "SetLogFilter"
        /\ UNCHANGED <<pollKind, pollMounted, autoRefresh, intervals, effInterval,
                       pollLoading, logs, logStats, health, pollReqs, pollReqNext>>
        /\ UNCHANGED notPoll

\* loadLogs / loadHealth after the await: try (set the data), catch (log
\* only), finally setLoading(false).
PollSettle ==
    \E r \in pollReqs : \E ok \in BOOLEAN : \E data \in LogLists :
        /\ pollMounted = "yes"
        /\ pollReqs' = pollReqs \ {r}
        /\ IF ok /\ pollKind = "apilogs"
           THEN logs' = data /\ logStats' = Len(data) /\ UNCHANGED health
           ELSE IF ok
           THEN health' = Len(data) /\ UNCHANGED <<logs, logStats>>
           ELSE UNCHANGED <<logs, logStats, health>>
        /\ pollLoading' = FALSE
        /\ lastStep' = "PollSettle"
        /\ UNCHANGED <<pollKind, pollMounted, autoRefresh, intervals, effInterval,
                       logFilter, pollReqNext>>
        /\ UNCHANGED notPoll

\* The admin leaves the page: the effect's cleanup runs; what is still in
\* flight settles on an unmounted component.
PollUnmount ==
    /\ pollMounted = "yes"
    /\ pollMounted' = "gone"
    /\ intervals' = ClearInterval(effInterval)
    /\ pollReqs' = {}
    /\ lastStep' = "PollUnmount"
    /\ UNCHANGED <<pollKind, autoRefresh, effInterval, pollLoading, logs, logStats,
                   health, logFilter, pollReqNext>>
    /\ UNCHANGED notPoll

InitPoll ==
    /\ pollKind \in PollKinds
    /\ pollMounted = "no"
    /\ autoRefresh = TRUE
    /\ intervals = {}
    /\ effInterval = 0
    /\ pollLoading = TRUE
    /\ logs = <<>>
    /\ logStats = -1
    /\ health = -1
    /\ logFilter = "all"
    /\ pollReqs = {}
    /\ pollReqNext = 1

-----------------------------------------------------------------------------
(* The four specifications *)

\* Each part at rest, for the specifications that do not move it.
AuthIdle == InitAuth /\ appVersion = "current" /\ adminToken = "tokA"
ListIdle == InitList /\ pageKind = "users"
DashIdle == InitDash
PollIdle == InitPoll /\ pollKind = "apilogs"

InitA == InitAuth /\ ListIdle /\ DashIdle /\ PollIdle /\ lastStep = "Init"

NextAuth ==
    \/ StartupCheck
    \/ LoginSubmit
    \/ DeliverLogin
    \/ PageSend
    \/ DeliverPage
    \/ Navigate
    \/ handleLogout
    \/ Reload

SpecAuth == InitA /\ [][NextAuth]_vars

InitL == InitList /\ AuthIdle /\ DashIdle /\ PollIdle /\ lastStep = "Init"

NextList ==
    \/ Mount
    \/ EditSearch
    \/ EditSearchOld
    \/ TimerFire
    \/ SetFilter
    \/ ClearFilter
    \/ Previous
    \/ NextClick
    \/ handleSearch
    \/ ClickMutation
    \/ DeclineDialog
    \/ OpenModal
    \/ CloseModal
    \/ ServerAnswer
    \/ DeliverList
    \/ DeliverMutation
    \/ DeliverDetail
    \/ Unmount

SpecList == InitL /\ [][NextList]_vars

InitM == InitModal /\ AuthIdle /\ DashIdle /\ PollIdle /\ lastStep = "Init"

\* The Users page while the admin works with the rows in view and the detail
\* modal: no search, filter or page change.
NextModal ==
    \/ Mount
    \/ TimerFire
    \/ ClickMutation
    \/ DeclineDialog
    \/ OpenModal
    \/ CloseModal
    \/ ServerAnswer
    \/ DeliverList
    \/ DeliverMutation
    \/ DeliverDetail
    \/ Unmount

SpecModal == InitM /\ [][NextModal]_vars

InitD == InitDash /\ AuthIdle /\ ListIdle /\ PollIdle /\ lastStep = "Init"

NextDash ==
    \/ DashMount
    \/ DashRefresh
    \/ DashRetry
    \/ SetTimeRange
    \/ StatsSettle
    \/ ExtraSettle

SpecDash == InitD /\ [][NextDash]_vars

InitP == InitPoll /\ AuthIdle /\ ListIdle /\ DashIdle /\ lastStep = "Init"

NextPoll ==
    \/ PollMount
    \/ ToggleAutoRefresh
    \/ Tick
    \/ PollRefresh
    \/ SetLogFilter
    \/ PollSettle
    \/ PollUnmount

SpecPoll == InitP /\ [][NextPoll]_vars

-----------------------------------------------------------------------------
(* Claims about App, Login and the api client (checked under SpecAuth) *)

\* The step just taken settled a request with this status.
SettledNow(st) ==
    /\ lastStep' \in {"DeliverLogin", "DeliverPage"}
    /\ settled'.status = st

C1_Render ==
    /\ Screen \in ProtectedPages => isAuthenticated
    /\ ~isAuthenticated => Screen \in {"spinner", "login"}

C1_Rise ==
    (~isAuthenticated /\ isAuthenticated') =>
        \/ lastStep' = "StartupCheck" /\ Truthy(adminToken)
        \/ lastStep' = "DeliverLogin" /\ settled'.status = 200 /\ settled'.success

\* C1: a protected page is rendered only while isAuthenticated is true, in
\* every other state only the spinner or the Login screen is rendered, and
\* isAuthenticated turns true only by the start-up check finding a non-empty
\* admin_token or by handleLogin after a login response with success = true.
C1_ProtectedOnlyWhenAuthenticated ==
    [](C1_Render) /\ [][C1_Rise]_vars

\* A protected page on screen right after a successful login.
C1_Witness ==
    /\ lastStep = "DeliverLogin"
    /\ Screen \in ProtectedPages
    /\ settled.success

\* C2: every request leaves with 'Authorization: Bearer <token>' for the
\* token localStorage holds at the moment of sending (a token being a
\* non-empty string, as in the start-up check), and without an Authorization
\* header when none is held.
C2_HeaderFollowsStoredToken ==
    [][\A r \in inflight' \ inflight :
          /\ Truthy(adminToken) => r.auth = Bearer(adminToken)
          /\ ~Truthy(adminToken) => r.auth = NoHeader]_vars

\* The first request after a login carries the token that login stored.
C2_Witness ==
    /\ lastStep = "PageSend"
    /\ loginAfter401
    /\ nextId = 3
    /\ \E r \in inflight : r.id = 2 /\ r.kind = "page" /\ r.auth = Bearer("tokB")

C3_Step ==
    /\ SettledNow(Unauthorized) =>
          /\ adminToken' = Null
          /\ navPending'
          /\ settled'.outcome = "rejected"
    /\ (\E st \in Statuses \ {200, Unauthorized} : SettledNow(st)) =>
          /\ adminToken' = adminToken
          /\ isAuthenticated' = isAuthenticated
          /\ settled'.outcome = "rejected"

C3_End ==
    (bootCause = "401" /\ ~appLoading /\ ~navPending /\ ~loginAfter401) =>
        ~isAuthenticated /\ Screen = "login"

\* C3: a response with status 401 to any request removes admin_token and
\* navigates to '/', and the error is still rejected to the caller; once the
\* page has loaded again the app is unauthenticated on the Login screen (until
\* a login succeeds).  A failure with another status, or without a response,
\* leaves the stored token and the authenticated state unchanged.
C3_UnauthorizedLogsOut ==
    [](C3_End) /\ [][C3_Step]_vars

\* The Login screen after the page load a 401 caused.
C3_Witness ==
    /\ bootCause = "401"
    /\ lastStep = "StartupCheck"
    /\ Screen = "login"
    /\ adminToken = Null

\* C4: a completed login attempt ends either (a) with success = true, the
\* returned token stored and the app authenticated, or (b) unauthenticated on
\* the Login screen with no token stored and a non-empty error displayed,
\* never both; the form's loading flag is false afterwards.
C4_LoginOutcome ==
    lastStep = "DeliverLogin" =>
        LET a == /\ settled.success
                 /\ adminToken = settled.token
                 /\ isAuthenticated
            b == /\ ~isAuthenticated
                 /\ Screen = "login"
                 /\ ~Truthy(adminToken)
                 /\ loginError # ""
        IN  /\ a \/ b
            /\ ~(a /\ b)
            /\ ~loginLoading

-----------------------------------------------------------------------------
(* Claims about the list pages (checked under SpecList) *)

C5_Sent == \A r \in reqs : r.type = "mutate" => r.confirmed

C5_Declined ==
    lastStep' = "DeclineDialog" =>
        UNCHANGED <<rows, pagination, loading, search, filter, selected, showModal,
                    reqs, reqNext, timers>>

\* C5: every mutation request in flight was sent by a click whose confirmation
\* dialog the admin accepted, and a click whose dialog is declined sends no
\* request and changes no view state.
C5_MutationsConfirmed ==
    [](C5_Sent) /\ [][C5_Declined]_vars

\* The same with verify / unverify left out.
C5_ExceptVerify ==
    [](\A r \in reqs : (r.type = "mutate" /\ r.op # "verify") => r.confirmed)
    /\ [][C5_Declined]_vars

C6_Step ==
    LET new == reqs' \ reqs
    IN  /\ lastStep' = "EditSearch" => new = {}
        /\ lastStep' = "TimerFire" =>
              /\ \A r \in new : r.type = "list" /\ r.search = search' /\ r.page = 1
              /\ Cardinality(new) =
                     IF effTimer.page # 1 /\ pagination.page = 1 THEN 0 ELSE 1

\* C6: at most one debounce timer is pending at any time; an edit of the
\* search text sends no request; and the debounce callback sends exactly one
\* list request, carrying the final search text and page 1 (none only when
\* the page was changed to 1 between the last edit and the callback, which
\* has itself sent that request).
C6_DebounceOneRequest ==
    [](Cardinality(timers) <= 1) /\ [][C6_Step]_vars

\* The callback has just run after a burst of two or more edits and sent the
\* one request with the final search text.
C6_Witness ==
    /\ lastStep = "TimerFire"
    /\ burst = 3
    /\ timers = {}
    /\ \E r \in reqs : r.id = reqNext - 1 /\ r.type = "list"
                       /\ r.search = search /\ r.page = 1

\* C7: a mounted list page on which the admin has done nothing has issued
\* exactly one list request.
C7_MountSendsOne ==
    (mounted = "yes" /\ ~IsOld(pageKind) /\ quiet) => listSent = 1

\* C8: whenever the pagination controls are shown, 1 <= page <= pages.
C8_PageWithinRange ==
    ControlsShown =>
        /\ 1 <= pagination.page
        /\ pagination.page <= pagination.pages

\* The lower half of C8 alone.
C8_PageAtLeastOne == ControlsShown => 1 <= pagination.page

-----------------------------------------------------------------------------
(* Claims about the polling pages (checked under SpecPoll) *)

C9_Intervals ==
    /\ Cardinality(intervals) <= 1
    /\ intervals # {} <=> (pollMounted = "yes" /\ Polls(pollKind, autoRefresh))
    /\ \A i \in intervals :
           i.period = IF pollKind = "apilogs" THEN 5000 ELSE 30000

C9_Tick ==
    lastStep' = "Tick" =>
        pollMounted = "yes" /\ (pollKind = "system" \/ autoRefresh)

\* C9: at most one polling interval exists at any time; ApiLogs has one
\* 5-second interval exactly while mounted with auto-refresh on, System one
\* 30-second interval exactly while mounted; an interval callback issues a
\* request only in such a state, so none after the unmount or the switch-off.
C9_OnePollingInterval ==
    [](C9_Intervals) /\ [][C9_Tick]_vars

\* Auto-refresh was switched off and on again: one interval, not the first.
C9_Witness ==
    /\ pollKind = "apilogs"
    /\ lastStep = "ToggleAutoRefresh"
    /\ autoRefresh
    /\ Cardinality(intervals) = 1
    /\ \A i \in intervals : i.handle >= 3

-----------------------------------------------------------------------------
(* Claims about the Dashboard (checked under SpecDash) *)

\* C10: the Dashboard shows exactly one of loading / error / content; while
\* no loadData run is in flight, loading is false and the error view is shown
\* exactly when the most recently started run failed on its stats request;
\* while a run is in flight the spinner is shown, and error is null from the
\* start of a run until its stats request fails.
C10_DashboardViews ==
    dashMounted = "yes" =>
        /\ DashView \in {"loading", "error", "content"}
        /\ Cardinality(dashRuns) <= 1
        /\ dashRuns = {} =>
              /\ ~dashLoading
              /\ DashView = "error" <=> lastRun.statsFailed
              /\ ~lastRun.statsFailed => dashError = Null
        /\ dashRuns # {} => DashView = "loading" /\ dashError = Null

\* The error view after a run that failed on its stats request, over the
\* stats an earlier run had loaded.
C10_Witness ==
    /\ dashMounted = "yes"
    /\ dashRuns = {}
    /\ lastRun.id >= 2
    /\ lastRun.statsFailed
    /\ DashView = "error"
    /\ dashStats # Null
    /\ lastStep = "StatsSettle"

C11_Step ==
    (lastStep' = "ExtraSettle" /\ lastRun'.extraFailed /\ ~lastRun.extraFailed) =>
        /\ dashError' = Null
        /\ ~dashLoading'
        /\ DashView' = "content"
        /\ dashStats' = lastRun.stats
        /\ dashStats' # Null
        /\ analytics' = analytics
        /\ activities' = activities

C11_After ==
    (dashMounted = "yes" /\ dashRuns = {} /\ lastRun.extraFailed) =>
        /\ dashError = Null
        /\ ~dashLoading
        /\ DashView = "content"
        /\ dashStats = lastRun.stats

\* C11: a loadData run whose analytics or activity-feed request fails ends
\* with error null, loading false, the content view showing the stats that run
\* loaded, and analytics and activities as they were before.
C11_OptionalFailureIsNotAnError ==
    [](C11_After) /\ [][C11_Step]_vars

\* A later run lost its activity feed after the analytics had arrived; the
\* analytics and activities of an earlier run are still stored.
C11_Witness ==
    /\ dashMounted = "yes"
    /\ lastStep = "ExtraSettle"
    /\ dashRuns = {}
    /\ lastRun.extraFailed
    /\ lastRun.id >= 2
    /\ analytics # 0
    /\ activities = "feed1"

C19_Sent ==
    /\ lastRun.sent \in {{}, {"stats"}, {"stats", "analytics", "activity"}}
    /\ lastRun.statsFailed => lastRun.sent = {"stats"}
    /\ \A r \in dashRuns :
           /\ r.phase = "stats" => r.pending = {} /\ lastRun.sent = {"stats"}
           /\ r.pending # {} => lastRun.stats # Null

C19_Step ==
    /\ (lastRun'.sent # lastRun.sent /\ lastRun'.sent # {"stats"}) =>
           /\ lastStep' = "StatsSettle"
           /\ lastRun'.id = lastRun.id
           /\ ~lastRun'.statsFailed
           /\ lastRun.sent = {"stats"}
           /\ lastRun'.sent = {"stats", "analytics", "activity"}
           /\ \E r \in dashRuns' : r.pending = {"analytics", "activity"}
    /\ (lastStep' = "StatsSettle" /\ lastRun'.statsFailed) =>
           lastRun'.sent = lastRun.sent

\* C19: in a loadData run the stats request is issued first; the analytics
\* and activity-feed requests are issued only by the step in which the stats
\* response arrives successfully, both in that step, and a run whose stats
\* request fails has issued neither.
C19_StatsFirst ==
    [](C19_Sent) /\ [][C19_Step]_vars

\* The stats of a second run have arrived and its two optional requests are out.
C19_Witness ==
    /\ lastStep = "StatsSettle"
    /\ lastRun.id >= 2
    /\ lastRun.sent = {"stats", "analytics", "activity"}
    /\ \E r \in dashRuns : r.phase = "extra" /\ r.pending = {"analytics", "activity"}

-----------------------------------------------------------------------------
(* Further claims about the list pages (checked under SpecList) *)

\* C12: once a delete has succeeded and no request of the page is in flight
\* any more, the displayed list holds no record the backend has deleted.
\* (Stated for the runs in which the list response delivered last was a
\* success, so that a failed refetch is not what keeps the record.)
C12_DeletedRecordGone ==
    (mounted = "yes" /\ reqs = {} /\ lastList.ok) => rows \subseteq db

C14_Step ==
    (lastStep' = "DeliverList" /\ ~IsOld(pageKind)) =>
        \E r \in reqs :
            /\ r.id = lastList'.id
            /\ r.type = "list"
            /\ r.ok = lastList'.ok
            /\ IF r.ok
               THEN rows' = r.resp.rows /\ pagination' = r.resp.pagination
               ELSE UNCHANGED <<rows, pagination>> /\ ~loading'

C14_OnlySuccessStores ==
    (~IsOld(pageKind) /\ (rows' # rows \/ pagination' # pagination)) =>
        \/ lastStep' = "DeliverList" /\ lastList'.ok
        \/ /\ lastStep' \in {"TimerFire", "SetFilter", "Previous", "Next"}
           /\ rows' = rows
           /\ pagination' = [pagination EXCEPT !.page = pagination'.page]

\* C14: on the current list pages a failed list request leaves rows and
\* pagination as they were and ends with loading false; rows change only by
\* a successful response, which replaces rows and pagination together from
\* that one response (the page controls and the debounce callback change
\* pagination.page alone).
C14_FailedLoadKeepsList ==
    [][C14_Step /\ C14_OnlySuccessStores]_vars

\* A list request has just failed over rows an earlier response had stored.
C14_Witness ==
    /\ ~IsOld(pageKind)
    /\ lastStep = "DeliverList"
    /\ ~lastList.ok
    /\ lastList.from # 0
    /\ lastList.id > lastList.from
    /\ rows # {}
    /\ ~loading

\* C15: a response to an older list request that arrives late never replaces
\* the result of a newer request: when the response stored last belongs to
\* an older request than the one stored before it, the displayed rows and
\* pagination remain those of the newer request.
C15_NewestResponseShown ==
    [][(~IsOld(pageKind) /\ lastList'.from < lastList.from)
          => UNCHANGED <<rows, pagination>>]_vars

\* C16: storing the responses to list requests starts no unbounded chain of
\* further requests: a chain of requests, each caused by storing the response
\* to the one before, never reaches the length the model follows it to.
C16_NoRequestChain ==
    \A r \in reqs : r.type = "list" => r.gen < MaxChain

\* C17: loading is true in every state in which a list request of the page
\* is in flight (it is false only when none is in flight).
C17_LoadingWhileInFlight ==
    (mounted = "yes" /\ \E r \in reqs : r.type = "list") => loading

C18_Step ==
    (~IsOld(pageKind) /\ lastStep' \in {"SetFilter", "ClearFilter", "TimerFire"}) =>
        /\ \A r \in reqs' \ reqs : r.page = 1
        /\ lastStep' \in {"SetFilter", "ClearFilter"} => pagination'.page = 1

\* C18: on the current list pages a change of the status filter, the type
\* filter, the couple selector, the 'Clear filter' button or (through the
\* debounce callback) the search text sets pagination.page to 1, and the list
\* request it causes asks for page 1.
C18_FilterChangeResetsPage ==
    [][C18_Step]_vars

\* The same for the search text and the Memories couple selector alone.
C18_SearchAndCoupleSelector ==
    [][(~IsOld(pageKind) /\
          (lastStep' = "TimerFire" \/ (lastStep' = "SetFilter" /\ pageKind = "memories")))
        => \A r \in reqs' \ reqs : r.page = 1]_vars

-----------------------------------------------------------------------------
(* Further claims about the polling pages (checked under SpecPoll) *)

\* What the selected filter is meant to keep.
C13_Wanted(log) ==
    CASE logFilter = "all" -> TRUE
      [] logFilter = "errors" -> log.status >= 400
      [] logFilter = "slow" -> log.duration > 1000

\* The positions of the fetched logs the filter is meant to keep.
C13_Kept == {i \in 1 .. Len(logs) : C13_Wanted(logs[i])}

\* The k-th of them.
C13_Nth(k) == CHOOSE i \in C13_Kept : Cardinality({j \in C13_Kept : j <= i}) = k

C13_Rows ==
    pollKind = "apilogs" =>
        /\ Len(filteredLogs) = Cardinality(C13_Kept)
        /\ \A k \in 1 .. Len(filteredLogs) : filteredLogs[k] = logs[C13_Nth(k)]
        /\ logFilter = "all" => filteredLogs = logs

C13_Step ==
    lastStep' = "SetLogFilter" =>
        /\ UNCHANGED <<logs, logStats, pollReqs, pollReqNext>>
        /\ logFilter' # logFilter

\* C13: the rows ApiLogs displays are exactly the fetched logs the selected
\* filter keeps ('all': every log, 'errors': status >= 400, 'slow': duration
\* > 1000), in fetched order; changing the filter sends no request and leaves
\* logs and stats unchanged.
C13_FilteredLogs ==
    [](C13_Rows) /\ [][C13_Step]_vars

\* 'slow' selected over logs that hold slow entries and one of exactly 1000 ms.
C13_Witness ==
    /\ pollKind = "apilogs"
    /\ lastStep = "SetLogFilter"
    /\ logFilter = "slow"
    /\ logs = <<LogEdge, LogSlow, LogOk, LogSlow>>
    /\ filteredLogs = <<LogSlow, LogSlow>>

C20_Step ==
    \A r \in pollReqs' \ pollReqs :
        (pollKind = "apilogs" /\ ~autoRefresh') => r.by = "click"

\* C20: while auto-refresh is off on ApiLogs, every log request issued comes
\* from the Refresh button; switching auto-refresh off issues none, and no
\* interval tick issues one.
C20_OffMeansManual ==
    [][C20_Step]_vars

\* The same without the request of the switch-off itself.
C20_NoTickWhenOff ==
    [][\A r \in pollReqs' \ pollReqs :
          (pollKind = "apilogs" /\ ~autoRefresh') =>
              /\ r.by # "tick"
              /\ r.by = "effect" => autoRefresh]_vars

-----------------------------------------------------------------------------
(* A further claim about App and the api client (checked under SpecAuth) *)

\* From handleLogout until a login succeeds: no token, unauthenticated, and
\* no page of Layout on screen (directly after the logout: the Login screen).
C21_LoggedOut ==
    (appVersion = "earlier" /\ sinceLogout = "out") =>
        /\ adminToken = Null
        /\ ~isAuthenticated
        /\ Screen \in {"login", "spinner"}
        /\ lastStep = "handleLogout" => Screen = "login"

C21_Step ==
    /\ (appVersion = "earlier" /\ sinceLogout = "out") =>
           \A r \in inflight' \ inflight : r.auth = NoHeader
    /\ (appVersion = "earlier" /\ sinceLogout = "out" /\ sinceLogout' = "back") =>
           /\ lastStep' = "DeliverLogin"
           /\ isAuthenticated'
           /\ adminToken' = settled'.token
           /\ Screen' \in Pages(appVersion)

\* C21: in the App that has logout, handleLogout removes admin_token and
\* sets the app unauthenticated; from then on only the Login screen is
\* rendered, requests carry no Authorization header and a reload stays
\* unauthenticated, until a login succeeds, which authenticates with the
\* token of its response.
C21_LogoutThenLogin ==
    [](C21_LoggedOut) /\ [][C21_Step]_vars

\* After a logout the page was reloaded, the admin logged in again and a
\* page of Layout is on screen with the new token stored.
C21_Witness ==
    /\ appVersion = "earlier"
    /\ sinceLogout = "back"
    /\ bootCause = "refresh"
    /\ lastStep = "DeliverLogin"
    /\ isAuthenticated
    /\ adminToken = "tokB"
    /\ Screen \in Pages(appVersion)

-----------------------------------------------------------------------------
(* Further claims about mutations on the list pages (checked under SpecList) *)

\* C22: on the earlier Users and Messages pages, when a delete succeeds the
\* displayed rows become the rows displayed at that moment minus the deleted
\* record, also when the list was reloaded while the delete was in flight.
C22_OptimisticDelete ==
    [][(IsOld(pageKind) /\ lastStep' = "DeliverMutation") =>
          \A r \in reqs \ reqs' :
              (r.type = "mutate" /\ r.op = "delete" /\ r.ok) =>
                  rows' = rows \ {r.target}]_vars

\* C23: when toggleBan or toggleVerify completes, the user the detail modal
\* is bound to (selectedUser.user._id) is the same as immediately before, also
\* when the admin opened or closed the modal or viewed another user while
\* the update was in flight.
C23_SelectedUserKept ==
    [][(pageKind = "users" /\ lastStep' = "DeliverMutation") =>
          \A r \in reqs \ reqs' :
              (r.type = "mutate" /\ r.op \in {"ban", "verify"}) =>
                  selected' = selected]_vars

\* C24: whenever the line 'Showing X to Y of total' is rendered on Users,
\* Memories or Messages (pages > 1), 1 <= X <= Y <= total.
\* (Stated for the states in which no load is under way.)
C24_ShowingRange ==
    (pageKind \in {"users", "memories", "messages"} /\ ControlsShown /\ ~loading) =>
        /\ 1 <= ShowingFrom(pagination)
        /\ ShowingFrom(pagination) <= ShowingTo(pagination)
        /\ ShowingTo(pagination) <= pagination.total

\* The two outer bounds of C24 alone: 1 <= X and Y <= total.
C24_OuterBounds ==
    (pageKind \in {"users", "memories", "messages"} /\ ControlsShown) =>
        /\ 1 <= ShowingFrom(pagination)
        /\ ShowingTo(pagination) <= pagination.total

====
